---- MODULE Spec2Model ----
(***************************************************************************)
(* Commit-reveal card-distribution coordinator of LifecyclePanel.tsx.      *)
(* One React component instance (the coordinator), its localStorage, the   *)
(* collaborator ledger it talks to, and the feed of props it observes.     *)
(* Every action ends with the re-render React performs after a state or    *)
(* prop change, i.e. with the two useEffect hooks (polling, auto-reveal).  *)
(***************************************************************************)
EXTENDS Integers, Sequences, FiniteSets, Bags, TLC

\* ------------------------------------------------------------------ bounds
MaxHand == 2
MaxLen == 3                 \* longest status vector and participant list fed in
MaxNow == 130               \* last second of the wall clock

\* --------------------------------------------------------------- constants
PlayerSeat == 2
OtherSeat == 0

WAITING == "WAITING"
COMMIT == "COMMIT"
REVEAL == "REVEAL"
PREFLOP == "PREFLOP"

NONE == "null"

\* a secret is a string, modelled as the sequence of its characters;
\* the empty string is "no secret"
NoSecret == <<>>
NoBytes == <<>>
NoTimer == [armed |-> FALSE, secret |-> NoSecret]
NoCommit == NoBytes

Hands == 0..MaxHand

VARIABLES
    \* props fed by the parent
    phase,                  \* gameState.phase
    handNumber,             \* tableState?.handNumber ?? 0
    \* component state
    status,
    activeAction,
    commitStatus,
    revealStatus,
    playersInHand,
    autoRevealTriggeredRef,
    storedSecret,           \* the useMemo value
    timer,                  \* the setTimeout of the auto-reveal effect
    pendingPolls,           \* what the fetchStatus calls awaiting Promise.all will return
    interval,               \* the setInterval of the polling effect is set
    inflight,               \* runLifecycleAction calls not yet finished
    \* browser
    localStorage,
    \* collaborator (ledger); its hand number is the one the feed reports
    ledgerCommit,
    ledgerRevealed,
    ledgerHand,             \* the number of the hand the ledger is in
    \* history
    revealCalls,            \* auto-reveal invocations of this instance for the
                            \* hand number it observes now
    \* the browser's localStorage by key, with the last saveSecret call on it
    secretStore,
    lastSave,
    \* the other props, the clock, and what the panel displays
    props,                  \* seats, playerSeat, pendingLeave, isAdmin,
                            \* isAdminOnlyStart, isPaused, gameState.actionOn
    clock,                  \* Math.floor(Date.now() / 1000)
    deadlineText,           \* the useMemo value of line 186
    view                    \* what the last render displayed

vars == <<phase, handNumber, status, activeAction, commitStatus, revealStatus,
          playersInHand, autoRevealTriggeredRef, storedSecret, timer,
          pendingPolls, interval, inflight, localStorage,
          ledgerCommit, ledgerRevealed, ledgerHand, revealCalls,
          secretStore, lastSave, props, clock, deadlineText, view>>

\* what the coordinator's own steps leave alone
otherVars == <<secretStore, lastSave, props, clock, deadlineText, view>>

\* ------------------------------------------------------- pure functions
HexDigits == <<"0", "1", "2", "3", "4", "5", "6", "7",
               "8", "9", "a", "b", "c", "d", "e", "f">>

HexVal(c) == (CHOOSE i \in 1..16 : HexDigits[i] = c) - 1

\* the UTF-8 byte of a hex digit
CharCode(c) == IF HexVal(c) < 10 THEN 48 + HexVal(c) ELSE 87 + HexVal(c)

\* lines 76-79 for one random byte b: b.toString(16).padStart(2, "0")
generateSecret(b) == <<HexDigits[(b \div 16) + 1], HexDigits[(b % 16) + 1]>>

\* the random bytes getRandomValues may return
RandomBytes == {10, 241}

\* new TextEncoder().encode(s): UTF-8 of an ASCII string, one byte per char
TextEncode(s) == [i \in 1..Len(s) |-> CharCode(s[i])]

\* sha3_256 as an ideal (collision-free) digest of a byte sequence
sha3_256(data) == <<"sha3_256", data>>

\* lines 37-42: sha3_256(new TextEncoder().encode(secret))
hashSecretToBytes(secret) ==
    IF secret = NoSecret THEN NoBytes ELSE sha3_256(TextEncode(secret))

\* the reveal sends the bytes the hex string denotes instead of its text
RevealBytesHex(secret) ==
    [i \in 1..(Len(secret) \div 2) |->
        16 * HexVal(secret[2 * i - 1]) + HexVal(secret[2 * i])]

\* line 169: const secretBytes = new TextEncoder().encode(storedSecret)
RevealBytes(secret) == TextEncode(secret)

\* localStorage.getItem(key) || "", "" when storage throws
loadStoredSecret(store, hand, storageOk) ==
    IF storageOk THEN store[hand] ELSE NoSecret

\* localStorage.setItem / removeItem, a no-op when storage throws
saveSecret(store, hand, secret, storageOk) ==
    IF storageOk THEN [store EXCEPT ![hand] = secret] ELSE store

\* ------------------------------------------------- SecretStore by key
\* strings are sequences of characters; String.prototype.toLowerCase
UpperCase == <<"A", "B", "C", "D", "T">>
LowerCase == <<"a", "b", "c", "d", "t">>

toLowerCaseChar(c) ==
    IF \E i \in 1..Len(UpperCase) : UpperCase[i] = c
    THEN LowerCase[CHOOSE i \in 1..Len(UpperCase) : UpperCase[i] = c]
    ELSE c

toLowerCase(str) == [i \in 1..Len(str) |-> toLowerCaseChar(str[i])]

NoKey == <<>>
NoAddress == <<>>
TableAddress == <<"0", "x", "T">>
PlayerAddresses == {<<"a", "B">>, <<"A", "b">>, <<"a", "b">>, <<"c", "D">>, NoAddress}
StoreHands == {1, 12}
StoreSecrets == {generateSecret(b) : b \in RandomBytes} \cup {NoSecret}

\* the key of lines 44-47 without the toLowerCase of line 46
getSecretStorageKeyCaseSensitive(tableAddress, playerAddress, hand) ==
    IF tableAddress = NoAddress \/ playerAddress = NoAddress
    THEN NoKey
    ELSE <<"holdem_secret_">> \o tableAddress \o <<"_">> \o playerAddress
            \o <<"_", ToString(hand)>>

\* lines 44-47
getSecretStorageKey(tableAddress, playerAddress, hand) ==
    IF tableAddress = NoAddress \/ playerAddress = NoAddress
    THEN NoKey
    ELSE toLowerCase(<<"holdem_secret_">> \o tableAddress \o <<"_">> \o playerAddress
                        \o <<"_", ToString(hand)>>)

\* localStorage as the function from the keys it holds to their values
EmptyStore == [key \in {} |-> NoSecret]

\* lines 49-57 on the keyed storage
loadStoredSecretAt(store, tableAddress, playerAddress, hand, storageOk) ==
    LET key == getSecretStorageKey(tableAddress, playerAddress, hand)
    IN  IF key = NoKey \/ ~storageOk THEN NoSecret
        ELSE IF key \in DOMAIN store THEN store[key] ELSE NoSecret

\* lines 59-71 on the keyed storage: setItem, or removeItem for ""
saveSecretAt(store, tableAddress, playerAddress, hand, secret, storageOk) ==
    LET key == getSecretStorageKey(tableAddress, playerAddress, hand)
    IN  IF key = NoKey \/ ~storageOk THEN store
        ELSE IF secret # NoSecret
             THEN [k \in DOMAIN store \cup {key} |-> IF k = key THEN secret ELSE store[k]]
             ELSE [k \in DOMAIN store \ {key} |-> store[k]]

NoSave == [player |-> NoAddress, hand |-> 0, secret |-> NoSecret, before |-> EmptyStore]

\* ------------------------------------------------------------- props
NoSeat == -1
NoEntry == [player |-> NoAddress, sittingOut |-> FALSE]    \* seats[i] is null
NoActionOn == [seatIndex |-> NoSeat, playerAddress |-> NoAddress, deadline |-> 0]
NoText == <<>>
NoView == <<>>

Seat(playerAddress, sittingOut) == [player |-> playerAddress, sittingOut |-> sittingOut]

\* seats[i] with the 0-based index of the code
SeatAt(seats, i) == IF i >= 0 /\ i < Len(seats) THEN seats[i + 1] ELSE NoEntry

DefaultProps ==
    [seats |-> <<Seat(<<"c", "D">>, FALSE), NoEntry, Seat(<<"a", "B">>, FALSE)>>,
     playerSeat |-> PlayerSeat,
     pendingLeave |-> FALSE,
     isAdmin |-> FALSE,
     isAdminOnlyStart |-> FALSE,
     isPaused |-> FALSE,
     actionOn |-> NoActionOn]

\* Array.prototype.indexOf, 0-based, -1 when absent
IndexOf(seq, x) ==
    IF \E i \in 1..Len(seq) : seq[i] = x
    THEN (CHOOSE i \in 1..Len(seq) : seq[i] = x /\ \A j \in 1..(i - 1) : seq[j] # x) - 1
    ELSE 0 - 1

PlayerHandIdx(players) == IndexOf(players, PlayerSeat)

\* bits[idx] === true (undefined when idx is out of range)
BitAt(bits, idx) == idx >= 0 /\ idx + 1 <= Len(bits) /\ bits[idx + 1]

playerHandIdx == PlayerHandIdx(playersInHand)
hasCommitted == BitAt(commitStatus, playerHandIdx)
hasRevealed == BitAt(revealStatus, playerHandIdx)

\* ------------------------------------------------------------ eligibility
\* line 98: seats[playerSeat]?.player, null without a seat
playerAddress ==
    IF props.playerSeat # NoSeat THEN SeatAt(props.seats, props.playerSeat).player
    ELSE NoAddress

\* lines 178-184
isActionOnPlayer ==
    IF props.playerSeat = NoSeat \/ playerAddress = NoAddress \/ props.actionOn = NoActionOn
    THEN FALSE
    ELSE /\ props.actionOn.seatIndex = props.playerSeat
         /\ props.actionOn.playerAddress # NoAddress
         /\ toLowerCase(props.actionOn.playerAddress) = toLowerCase(playerAddress)

\* line 218
activeSeats == Len(SelectSeq(props.seats, LAMBDA s : s # NoEntry /\ ~s.sittingOut))

\* lines 219-220
isSeatedPlayer == props.playerSeat # NoSeat /\ SeatAt(props.seats, props.playerSeat) # NoEntry
isActivePlayer == isSeatedPlayer /\ ~SeatAt(props.seats, props.playerSeat).sittingOut

\* line 223 without the administrator-only switch
canStartHandIgnoringAdminOnly == isActionOnPlayer \/ props.isAdmin

\* line 223
canStartHand ==
    IF props.isAdminOnlyStart THEN props.isAdmin ELSE (isActionOnPlayer \/ props.isAdmin)

\* lines 225-230
startDisabled ==
    \/ phase # WAITING
    \/ props.isPaused
    \/ activeSeats < 2
    \/ ~canStartHand
    \/ activeAction # NONE

NoHint == "null"

\* lines 232-239
startHint ==
    IF phase # WAITING THEN NoHint
    ELSE IF props.isPaused THEN "Table is paused."
    ELSE IF activeSeats < 2 THEN "Need at least 2 active players."
    ELSE IF props.isAdminOnlyStart /\ ~props.isAdmin THEN "Only admin can start hands."
    ELSE IF ~isActionOnPlayer /\ ~props.isAdmin THEN "Waiting for the acting player to start."
    ELSE NoHint

\* lines 242-246
requestCardsDisabled ==
    \/ phase # COMMIT
    \/ ~isActivePlayer
    \/ hasCommitted
    \/ activeAction # NONE

\* --------------------------------------------------------------- progress
\* a || b of two numbers
OrElse(a, b) == IF a # 0 THEN a ELSE b

\* bits.filter(Boolean).length
CountTrue(bits) == Len(SelectSeq(bits, LAMBDA b : b))

\* lines 249-250
committedCount == CountTrue(commitStatus)
revealedCount == CountTrue(revealStatus)

\* line 251 without its last fallback
totalPlayersNoFallback == OrElse(Len(playersInHand), committedCount)

\* line 251
totalPlayers == OrElse(OrElse(Len(playersInHand), committedCount), 1)

NoProgress == [numerator |-> -1, denominator |-> -1]

\* lines 285-303: "<count>/<totalPlayers>", rendered in COMMIT and REVEAL
progressStatus ==
    IF phase = COMMIT THEN [numerator |-> committedCount, denominator |-> totalPlayers]
    ELSE IF phase = REVEAL THEN [numerator |-> revealedCount, denominator |-> totalPlayers]
    ELSE NoProgress

\* --------------------------------------------------------------- deadline
\* lines 22-34, with Math.floor(Date.now() / 1000) passed in as now; a text
\* is the sequence of its pieces, null is NoText. !deadline holds for an
\* absent deadline and for 0 alike, so an absent one is carried as 0.
formatDeadline(deadline, now) ==
    IF deadline = 0 \/ deadline <= 0 THEN NoText
    ELSE LET remaining == deadline - now
             mins == remaining \div 60
             secs == remaining % 60
         IN  IF remaining <= 0 THEN <<"Expired">>
             ELSE IF mins > 0 THEN <<ToString(mins), "m ", ToString(secs), "s">>
             ELSE <<ToString(secs), "s">>

\* line 186: useMemo(..., [gameState.actionOn?.deadline]) at a render where
\* the previous render had deadline previous and text as memoised value
deadlineTextMemo(previous, deadline, text, now) ==
    IF deadline = previous THEN text ELSE formatDeadline(deadline, now)

\* ------------------------------------------------------------ collaborator
\* the player is seated and active and is dealt into every hand, after the
\* other seat; the other seat commits before the player's first poll and
\* reveals last
LedgerPlayers ==
    IF ledgerHand = 0 THEN <<>> ELSE <<OtherSeat, PlayerSeat>>

LedgerCommits ==
    IF ledgerHand = 0 THEN <<>> ELSE <<TRUE, ledgerCommit # NoCommit>>

LedgerReveals ==
    IF ledgerHand = 0 THEN <<>> ELSE <<FALSE, ledgerRevealed>>

\* what the three status queries of one fetchStatus call return when they
\* succeed: the state of the ledger when they were sent
LedgerView == [commits |-> LedgerCommits, reveals |-> LedgerReveals, players |-> LedgerPlayers]

\* submitCommit / revealSecret may succeed only when the ledger can accept them
\* (spec 4.2: the collaborator recomputes the commitment from the revealed
\* bytes and checks it against what was committed)
LedgerAccepts(r) ==
    CASE r.kind = "commit" -> phase = COMMIT /\ ledgerCommit = NoCommit
      [] r.kind = "reveal" -> phase = REVEAL /\ ledgerCommit # NoCommit
                              /\ ~ledgerRevealed /\ sha3_256(r.bytes) = ledgerCommit
      [] OTHER -> TRUE

\* ------------------------------------------------------------------ helpers
NextPhase(p) ==
    CASE p = WAITING -> COMMIT [] p = COMMIT -> REVEAL
      [] p = REVEAL -> PREFLOP [] p = PREFLOP -> WAITING

Call(kind, call, secret, bytes) ==
    [kind |-> kind, call |-> call, stage |-> "call", secret |-> secret, bytes |-> bytes]

Add(bag, r) == bag (+) SetToBag({r})

Remove(bag, r) == bag (-) SetToBag({r})


\* ------------------------------------------------------------------ effects
\* useMemo of lines 112-115: recomputed on mount and when handNumber changes
\* (tableAddress and playerAddress do not change here)
StoredSecretMemo(mounted) ==
    IF mounted \/ handNumber' # handNumber
    THEN \E storageOk \in BOOLEAN :
            storedSecret' = loadStoredSecret(localStorage', handNumber', storageOk)
    ELSE storedSecret' = storedSecret

\* the polling effect with a cleanup that leaves the interval running.
\* Pending fetches stay pending through a cleanup; fetches that will
\* return the same vectors are not told apart
PollingEffectNoCleanup(basePending, mounted) ==
    IF (mounted \/ phase' # phase) /\ phase' \in {COMMIT, REVEAL}
    THEN /\ pendingPolls' = basePending \cup {LedgerView'}
         /\ interval' = TRUE
    ELSE /\ pendingPolls' = basePending
         /\ interval' = interval

\* useEffect of lines 128-151: runs on mount and when gameState.phase changes:
\* the cleanup of the previous run clears its interval (line 150), then in
\* COMMIT and REVEAL one fetch is sent and an interval is set (lines 148-149)
PollingEffect(basePending, mounted) ==
    IF mounted \/ phase' # phase
    THEN IF phase' \in {COMMIT, REVEAL}
         THEN /\ pendingPolls' = basePending \cup {LedgerView'}
              /\ interval' = TRUE
         ELSE /\ pendingPolls' = basePending
              /\ interval' = FALSE
    ELSE /\ pendingPolls' = basePending
         /\ interval' = interval

\* the condition of the auto-reveal effect without the test of line 161
AutoRevealCondNoMark(ph, secret, idx, revealed, action, ref, hand) ==
    /\ ph = REVEAL
    /\ secret # NoSecret
    /\ idx >= 0
    /\ ~revealed
    /\ action = NONE

\* lines 155-162
AutoRevealCond(ph, secret, idx, revealed, action, ref, hand) ==
    /\ ph = REVEAL
    /\ secret # NoSecret
    /\ idx >= 0
    /\ ~revealed
    /\ action = NONE
    /\ ref # hand

\* useEffect of lines 154-176, run after the render that follows an action:
\* when a dependency changed the previous cleanup clears the timeout, then
\* the body may arm a new one and mark the hand
AutoRevealEffect(baseTimer, baseRef, mounted) ==
    LET idx == PlayerHandIdx(playersInHand')
        revealed == BitAt(revealStatus', idx)
        depsChanged == \/ mounted
                       \/ <<phase', storedSecret', idx, revealed, handNumber'>>
                            # <<phase, storedSecret, playerHandIdx, hasRevealed, handNumber>>
    IN  IF depsChanged
        THEN IF AutoRevealCond(phase', storedSecret', idx, revealed,
                               activeAction', baseRef, handNumber')
             THEN /\ autoRevealTriggeredRef' = handNumber'
                  /\ timer' = [armed |-> TRUE, secret |-> storedSecret']
             ELSE /\ autoRevealTriggeredRef' = baseRef
                  /\ timer' = NoTimer
        ELSE /\ autoRevealTriggeredRef' = baseRef
             /\ timer' = baseTimer

\* --------------------------------------------------------------------- Init
\* the store of the keyed SecretStore functions, empty
InitStore ==
    /\ secretStore = EmptyStore
    /\ lastSave = NoSave

\* the player sits at seat 2 and plays, another player sits at seat 0;
\* nobody is an administrator, no deadline is set
InitPanel ==
    /\ props = DefaultProps
    /\ clock = 0
    /\ deadlineText = NoText
    /\ view = NoView

Init ==
    /\ InitStore
    /\ InitPanel
    /\ phase = WAITING
    /\ handNumber = 0
    /\ status = NONE
    /\ activeAction = NONE
    /\ commitStatus = <<>>
    /\ revealStatus = <<>>
    /\ playersInHand = <<>>
    /\ autoRevealTriggeredRef = 0
    /\ storedSecret = NoSecret
    /\ timer = NoTimer
    /\ pendingPolls = {}
    /\ interval = FALSE
    /\ inflight = EmptyBag
    /\ localStorage = [h \in Hands |-> NoSecret]
    /\ ledgerCommit = NoCommit
    /\ ledgerRevealed = FALSE
    /\ ledgerHand = handNumber
    /\ revealCalls = 0

componentState == <<status, activeAction, commitStatus, revealStatus, playersInHand>>
ledgerState == <<ledgerCommit, ledgerRevealed, ledgerHand>>
snapshotState == <<commitStatus, revealStatus, playersInHand>>

\* ------------------------------------------------------------ feed actions
\* the feed reports the next phase; leaving WAITING starts a new hand on the
\* ledger, whose number arrives with the phase
FeedPhase ==
    /\ phase' = NextPhase(phase)
    /\ IF phase = WAITING
       THEN /\ handNumber < MaxHand
            /\ handNumber' = handNumber + 1
            /\ ledgerCommit' = NoCommit
            /\ ledgerRevealed' = FALSE
            /\ ledgerHand' = handNumber + 1
            /\ revealCalls' = 0
       ELSE UNCHANGED <<handNumber, ledgerState, revealCalls>>
    /\ UNCHANGED <<componentState, inflight, localStorage>>
    /\ UNCHANGED otherVars
    /\ StoredSecretMemo(FALSE)
    /\ PollingEffect(pendingPolls, FALSE)
    /\ AutoRevealEffect(timer, autoRevealTriggeredRef, FALSE)

\* ------------------------------------------------- runLifecycleAction
\* lines 189-192 up to the await: take the slot, clear the status, call
\* the collaborator.  No test of activeAction is made here.
runLifecycleActionStart(r) ==
    /\ activeAction' = r.kind
    /\ status' = NONE
    /\ inflight' = Add(inflight, r)

\* the collaborator calls invoked by a step
NewCalls ==
    { r \in BagToSet(inflight') :
        r.stage = "call" /\ CopiesIn(r, inflight') > CopiesIn(r, inflight) }

\* the render that follows a change of component state only
AfterAction ==
    /\ UNCHANGED <<phase, handNumber, commitStatus, revealStatus, playersInHand>>
    /\ UNCHANGED otherVars
    /\ StoredSecretMemo(FALSE)
    /\ PollingEffect(pendingPolls, FALSE)
    /\ AutoRevealEffect(timer, autoRevealTriggeredRef, FALSE)

\* lines 205-215 and 350-354: Request Cards generates a secret, saves it,
\* hashes it and submits the commitment
handleRequestCards ==
    /\ ~requestCardsDisabled
    /\ \E b \in RandomBytes, storageOk \in BOOLEAN :
          LET newSecret == generateSecret(b)
          IN  /\ localStorage' = saveSecret(localStorage, handNumber, newSecret, storageOk)
              /\ runLifecycleActionStart(Call("commit", "submitCommit", newSecret,
                                              hashSecretToBytes(newSecret)))
    /\ UNCHANGED <<ledgerState, revealCalls>>
    /\ AfterAction

\* lines 415-423: Sit Out / Sit In, the button that is rendered in every
\* phase and disabled only while an action is active; it stands for the
\* player's other buttons, which all go through runLifecycleAction
ClickSitToggle ==
    /\ isSeatedPlayer
    /\ activeAction = NONE
    /\ runLifecycleActionStart(
          Call("sitout",
               IF SeatAt(props.seats, props.playerSeat).sittingOut THEN "sitIn" ELSE "sitOut",
               NoSecret, NoBytes))
    /\ UNCHANGED <<localStorage, ledgerState, revealCalls>>
    /\ AfterAction

\* lines 167-171: the debounce timeout fires and reveals the secret the
\* effect closed over
AutoRevealTimeout ==
    /\ timer.armed
    /\ runLifecycleActionStart(Call("reveal", "revealSecret", timer.secret,
                                    RevealBytes(timer.secret)))
    /\ revealCalls' = revealCalls + 1
    /\ UNCHANGED <<phase, handNumber, commitStatus, revealStatus, playersInHand,
                   localStorage, ledgerState>>
    /\ UNCHANGED otherVars
    /\ StoredSecretMemo(FALSE)
    /\ PollingEffect(pendingPolls, FALSE)
    /\ AutoRevealEffect(NoTimer, autoRevealTriggeredRef, FALSE)

\* the state of the ledger after it accepted call r
LedgerApply(r) ==
    /\ ledgerCommit' = IF r.kind = "commit" THEN r.bytes ELSE ledgerCommit
    /\ ledgerRevealed' = (ledgerRevealed \/ r.kind = "reveal")
    /\ ledgerHand' = ledgerHand

\* lines 192-193: the collaborator call resolves; the status is set and
\* the refresh is awaited
ActionSucceeds ==
    /\ \E r \in BagToSet(inflight) :
          /\ r.stage = "call"
          /\ LedgerAccepts(r)
          /\ LedgerApply(r)
          /\ inflight' = Add(Remove(inflight, r), [r EXCEPT !.stage = "refresh"])
          /\ status' = "success"
          /\ UNCHANGED activeAction
    /\ UNCHANGED <<localStorage, revealCalls>>
    /\ AfterAction

\* the slot is kept on failure
runLifecycleActionFailsKeepSlot(r) ==
    /\ inflight' = Remove(inflight, r)
    /\ status' = "error"
    /\ UNCHANGED activeAction

\* lines 195-201: catch sets the failure status, finally releases the slot
runLifecycleActionFails(r) ==
    /\ inflight' = Remove(inflight, r)
    /\ status' = "error"
    /\ activeAction' = NONE

\* the collaborator call rejects
ActionFails ==
    /\ \E r \in BagToSet(inflight) :
          /\ r.stage = "call"
          /\ runLifecycleActionFails(r)
    /\ UNCHANGED <<localStorage, ledgerState, revealCalls>>
    /\ AfterAction

\* line 194 then finally: onRefresh resolves, the slot is released
RefreshSucceeds ==
    /\ \E r \in BagToSet(inflight) :
          /\ r.stage = "refresh"
          /\ inflight' = Remove(inflight, r)
          /\ activeAction' = NONE
    /\ UNCHANGED <<status, localStorage, ledgerState, revealCalls>>
    /\ AfterAction

\* line 194 then catch and finally: onRefresh rejects
RefreshFails ==
    /\ \E r \in BagToSet(inflight) :
          /\ r.stage = "refresh"
          /\ runLifecycleActionFails(r)
    /\ UNCHANGED <<localStorage, ledgerState, revealCalls>>
    /\ AfterAction

\* ------------------------------------------------------------------ polling
\* line 149: the interval, when set, ticks and sends a fetch
IntervalTick ==
    /\ interval
    /\ pendingPolls' = pendingPolls \cup {LedgerView}
    /\ UNCHANGED <<phase, handNumber, componentState, interval, inflight, localStorage,
                   ledgerState, revealCalls>>
    /\ UNCHANGED otherVars
    /\ StoredSecretMemo(FALSE)
    /\ AutoRevealEffect(timer, autoRevealTriggeredRef, FALSE)

\* each vector is replaced as soon as its own query succeeded
fetchStatusPartial(v, okCommits, okReveals, okPlayers) ==
    << IF okCommits THEN v.commits ELSE commitStatus,
       IF okReveals THEN v.reveals ELSE revealStatus,
       IF okPlayers THEN v.players ELSE playersInHand >>

\* lines 134-145: Promise.all of the three queries, then the three setters
\* (one batched render), or the catch that only logs; the value is the
\* snapshot <<commitStatus, revealStatus, playersInHand>> left behind
fetchStatus(v, okCommits, okReveals, okPlayers) ==
    IF okCommits /\ okReveals /\ okPlayers
    THEN <<v.commits, v.reveals, v.players>>
    ELSE snapshotState

\* a pending fetchStatus call resumes after its await; more calls that
\* return the same vectors may still be pending
PollReturns ==
    /\ \E v \in pendingPolls, more \in BOOLEAN :
          /\ \E snapshot \in { fetchStatus(v, okCommits, okReveals, okPlayers) :
                                 okCommits \in BOOLEAN, okReveals \in BOOLEAN,
                                 okPlayers \in BOOLEAN } :
                /\ commitStatus' = snapshot[1]
                /\ revealStatus' = snapshot[2]
                /\ playersInHand' = snapshot[3]
          /\ UNCHANGED <<phase, handNumber, status, activeAction, inflight,
                         localStorage, ledgerState, revealCalls>>
          /\ UNCHANGED otherVars
          /\ StoredSecretMemo(FALSE)
          /\ PollingEffect(IF more THEN pendingPolls ELSE pendingPolls \ {v}, FALSE)
    /\ AutoRevealEffect(timer, autoRevealTriggeredRef, FALSE)

\* ------------------------------------------------------------------ remount
\* lines 95-115: the page is reloaded (or the panel unmounted and mounted
\* again): a new component instance with fresh state; both effects run.
\* The ledger settles the calls that were awaiting it before the new
\* instance acts: it accepts at most one of them
RemountWith(tableStateHand) ==
    /\ handNumber' = tableStateHand
    /\ status' = NONE
    /\ activeAction' = NONE
    /\ commitStatus' = <<>>
    /\ revealStatus' = <<>>
    /\ playersInHand' = <<>>
    /\ revealCalls' = 0
    /\ inflight' = EmptyBag
    /\ \/ UNCHANGED ledgerState
       \/ \E r \in BagToSet(inflight) :
             /\ r.stage = "call"
             /\ r.kind \in {"commit", "reveal"}
             /\ LedgerAccepts(r)
             /\ LedgerApply(r)
    /\ UNCHANGED <<phase, localStorage>>
    /\ UNCHANGED otherVars
    /\ StoredSecretMemo(TRUE)
    /\ PollingEffect({}, TRUE)
    /\ AutoRevealEffect(NoTimer, 0, TRUE)

\* the new instance is passed the table state the old one had
Remount == RemountWith(handNumber)

\* --------------------------------------------------------------------- Next
Next ==
    \/ FeedPhase
    \/ handleRequestCards
    \/ ClickSitToggle
    \/ AutoRevealTimeout
    \/ ActionSucceeds
    \/ ActionFails
    \/ RefreshSucceeds
    \/ RefreshFails
    \/ IntervalTick
    \/ PollReturns
    \/ Remount

Spec == Init /\ [][Next]_vars

\* timers fire and awaited promises settle; the feed and the player need not act
FairSpec == Spec /\ WF_vars(AutoRevealTimeout)

\* ------------------------------------------------------- SecretStore alone
\* saveSecret is called on the keyed storage, which outlives every
\* component instance
StoreSave ==
    /\ \E caller \in PlayerAddresses, hand \in StoreHands,
          secret \in StoreSecrets, storageOk \in BOOLEAN :
          /\ secretStore' = saveSecretAt(secretStore, TableAddress, caller,
                                         hand, secret, storageOk)
          /\ lastSave' = IF storageOk /\ caller # NoAddress
                         THEN [player |-> caller, hand |-> hand,
                               secret |-> secret, before |-> secretStore]
                         ELSE lastSave
    /\ UNCHANGED <<phase, handNumber, componentState, autoRevealTriggeredRef,
                   storedSecret, timer, pendingPolls, interval, inflight, localStorage,
                   ledgerState, revealCalls, props, clock, deadlineText, view>>

StoreSpec == Init /\ [][StoreSave]_vars

\* ---------------------------------------------------------- render alone
\* a coordinator with nothing stored, nothing in flight and no poll pending
IdleCoordinator ==
    /\ status = NONE
    /\ autoRevealTriggeredRef = 0
    /\ storedSecret = NoSecret
    /\ timer = NoTimer
    /\ pendingPolls = {}
    /\ interval = (phase \in {COMMIT, REVEAL})
    /\ localStorage = [h \in Hands |-> NoSecret]
    /\ ledgerCommit = NoCommit
    /\ ledgerRevealed = FALSE
    /\ ledgerHand = handNumber
    /\ revealCalls = 0

\* lines 273-487: what one render displays
RenderedView ==
    [progress |-> progressStatus]

Render ==
    /\ view' = RenderedView
    /\ UNCHANGED <<phase, handNumber, componentState, autoRevealTriggeredRef,
                   storedSecret, timer, pendingPolls, interval, inflight, localStorage,
                   ledgerState, revealCalls, secretStore, lastSave, props,
                   clock, deadlineText>>

\* the vectors a poll may have left, up to MaxLen entries each
BoolVectors == UNION {[1..n -> BOOLEAN] : n \in 0..MaxLen}
SeatLists ==
    {l \in UNION {[1..n -> 0..(MaxLen - 1)] : n \in 0..MaxLen} :
        \A i, j \in 1..Len(l) : i # j => l[i] # l[j]}

ProgressInit ==
    /\ InitStore
    /\ props = DefaultProps
    /\ clock = 0
    /\ deadlineText = NoText
    /\ view = NoView
    /\ activeAction = NONE
    /\ inflight = EmptyBag
    /\ handNumber = 1
    /\ phase \in {WAITING, COMMIT, REVEAL, PREFLOP}
    /\ commitStatus \in BoolVectors
    /\ revealStatus \in BoolVectors
    /\ playersInHand \in SeatLists
    /\ IdleCoordinator

ProgressSpec == ProgressInit /\ [][Render]_vars

\* -------------------------------------------------------- deadline alone
\* deadlines the parent may feed: none, non-positive, under a minute away,
\* a whole minute, 125 s
Deadlines == {-5, 0, 3, 60, 125}
ActionOns ==
    {NoActionOn} \cup
    {[seatIndex |-> OtherSeat, playerAddress |-> <<"c","D">>, deadline |-> d] :
        d \in Deadlines}

\* one second passes; nothing renders
Tick ==
    /\ clock < MaxNow
    /\ clock' = clock + 1
    /\ UNCHANGED <<phase, handNumber, componentState, autoRevealTriggeredRef,
                   storedSecret, timer, pendingPolls, interval, inflight, localStorage,
                   ledgerState, revealCalls, secretStore, lastSave, props,
                   deadlineText, view>>

\* the parent passes a new gameState.actionOn and the component renders
FeedActionOn ==
    /\ \E actionOn \in ActionOns :
          /\ actionOn # props.actionOn
          /\ props' = [props EXCEPT !.actionOn = actionOn]
          /\ deadlineText' = deadlineTextMemo(props.actionOn.deadline,
                                              actionOn.deadline, deadlineText, clock)
    /\ UNCHANGED <<phase, handNumber, componentState, autoRevealTriggeredRef,
                   storedSecret, timer, pendingPolls, interval, inflight, localStorage,
                   ledgerState, revealCalls, secretStore, lastSave, clock, view>>

DeadlineInit ==
    /\ InitStore
    /\ activeAction = NONE
    /\ inflight = EmptyBag
    /\ phase = WAITING
    /\ handNumber = 0
    /\ commitStatus = <<>>
    /\ revealStatus = <<>>
    /\ playersInHand = <<>>
    /\ view = NoView
    /\ clock = 0
    /\ \E actionOn \in ActionOns :
          /\ props = [DefaultProps EXCEPT !.actionOn = actionOn]
          /\ deadlineText = formatDeadline(actionOn.deadline, clock)
    /\ IdleCoordinator

DeadlineNext == Tick \/ FeedActionOn

DeadlineSpec == DeadlineInit /\ [][DeadlineNext]_vars

\* ------------------------------------------------------ start hand alone
\* lines 312-332: the Start Hand card is rendered in WAITING; its button
\* runs startHand through runLifecycleAction unless startDisabled
ClickStartHand ==
    /\ phase = WAITING
    /\ ~startDisabled
    /\ runLifecycleActionStart(Call("start", "startHand", NoSecret, NoBytes))
    /\ UNCHANGED <<localStorage, ledgerState, revealCalls>>
    /\ AfterAction

\* tables the parent may show: the player at seat 2 (or unseated), another
\* player at seat 0 (or nobody), either of them possibly sitting out
SeatTables ==
    {<<other, NoEntry, own>> :
        other \in {NoEntry, Seat(<<"c","D">>, FALSE), Seat(<<"c","D">>, TRUE)},
        own \in {NoEntry, Seat(<<"a","B">>, FALSE), Seat(<<"a","B">>, TRUE)}}

\* who the feed says is to act: nobody, the player's seat under the player's
\* identity in another case, the player's seat under another identity, or
\* another seat under the player's identity
StartActionOns ==
    {NoActionOn,
     [seatIndex |-> PlayerSeat, playerAddress |-> <<"A","b">>, deadline |-> 0],
     [seatIndex |-> PlayerSeat, playerAddress |-> <<"c","D">>, deadline |-> 0],
     [seatIndex |-> OtherSeat, playerAddress |-> <<"a","B">>, deadline |-> 0]}

StartInit ==
    /\ InitStore
    /\ activeAction = NONE
    /\ inflight = EmptyBag
    /\ handNumber = 1
    /\ commitStatus = <<>>
    /\ revealStatus = <<>>
    /\ playersInHand = <<>>
    /\ view = NoView
    /\ clock = 0
    /\ deadlineText = NoText
    /\ phase \in {WAITING, COMMIT, REVEAL, PREFLOP}
    /\ \E seats \in SeatTables, playerSeat \in {PlayerSeat, NoSeat},
          actionOn \in StartActionOns,
          isAdmin \in BOOLEAN, isAdminOnlyStart \in BOOLEAN, isPaused \in BOOLEAN :
          props = [seats |-> seats, playerSeat |-> playerSeat, pendingLeave |-> FALSE,
                   isAdmin |-> isAdmin, isAdminOnlyStart |-> isAdminOnlyStart,
                   isPaused |-> isPaused, actionOn |-> actionOn]
    /\ IdleCoordinator

StartNext ==
    \/ ClickStartHand
    \/ ClickSitToggle
    \/ ActionSucceeds
    \/ ActionFails
    \/ RefreshSucceeds
    \/ RefreshFails

StartSpec == StartInit /\ [][StartNext]_vars

\* ----------------------------------------------------------- leave alone
\* line 404: the Player Controls card is rendered for a seated player
playerControlsShown == isSeatedPlayer

\* the Leave Table button rendered in every phase
leaveNowShownInEveryPhase == playerControlsShown

\* line 436: Leave Table is rendered in WAITING
leaveNowShown == playerControlsShown /\ phase = WAITING

\* line 457: the Leave After Hand / Cancel Leave toggle is rendered otherwise
leaveToggleShown == playerControlsShown /\ phase # WAITING

\* lines 436-454
ClickLeaveTable ==
    /\ leaveNowShown
    /\ activeAction = NONE
    /\ runLifecycleActionStart(Call("leave", "leaveTable", NoSecret, NoBytes))
    /\ UNCHANGED <<localStorage, ledgerState, revealCalls>>
    /\ AfterAction

\* lines 457-475
ClickLeaveToggle ==
    /\ leaveToggleShown
    /\ activeAction = NONE
    /\ runLifecycleActionStart(
          Call("leave",
               IF props.pendingLeave THEN "cancelLeaveAfterHand" ELSE "leaveAfterHand",
               NoSecret, NoBytes))
    /\ UNCHANGED <<localStorage, ledgerState, revealCalls>>
    /\ AfterAction

\* the parent passes the collaborator's pending-leave flag, which changed;
\* no memo and no effect depends on it
FeedPendingLeave ==
    /\ props' = [props EXCEPT !.pendingLeave = ~props.pendingLeave]
    /\ UNCHANGED <<phase, handNumber, componentState, autoRevealTriggeredRef,
                   storedSecret, timer, pendingPolls, interval, inflight, localStorage,
                   ledgerState, revealCalls, secretStore, lastSave, clock,
                   deadlineText, view>>

LeaveInit ==
    /\ InitStore
    /\ activeAction = NONE
    /\ inflight = EmptyBag
    /\ phase = WAITING
    /\ handNumber = 0
    /\ commitStatus = <<>>
    /\ revealStatus = <<>>
    /\ playersInHand = <<>>
    /\ view = NoView
    /\ clock = 0
    /\ deadlineText = NoText
    /\ \E playerSeat \in {PlayerSeat, NoSeat}, pendingLeave \in BOOLEAN :
          props = [DefaultProps EXCEPT !.playerSeat = playerSeat,
                                       !.pendingLeave = pendingLeave]
    /\ IdleCoordinator

LeaveNext ==
    \/ ClickLeaveTable
    \/ ClickLeaveToggle
    \/ FeedPendingLeave
    \/ FeedPhase
    \/ ActionSucceeds
    \/ ActionFails
    \/ RefreshSucceeds
    \/ RefreshFails

LeaveSpec == LeaveInit /\ [][LeaveNext]_vars

\* ------------------------------------- game state and table state apart
\* gameState and tableState are two props (lines 11 and 14): the feed
\* reports the next phase while tableState still holds the previous hand
\* number; leaving WAITING starts a new hand on the ledger
FeedGameState ==
    /\ phase' = NextPhase(phase)
    /\ IF phase = WAITING
       THEN /\ ledgerHand < MaxHand
            /\ ledgerHand' = ledgerHand + 1
            /\ ledgerCommit' = NoCommit
            /\ ledgerRevealed' = FALSE
       ELSE UNCHANGED ledgerState
    /\ UNCHANGED <<handNumber, revealCalls, componentState, inflight, localStorage>>
    /\ UNCHANGED otherVars
    /\ StoredSecretMemo(FALSE)
    /\ PollingEffect(pendingPolls, FALSE)
    /\ AutoRevealEffect(timer, autoRevealTriggeredRef, FALSE)

\* tableState arrives with the hand number of the ledger
FeedTableState ==
    /\ handNumber # ledgerHand
    /\ handNumber' = ledgerHand
    /\ revealCalls' = 0
    /\ UNCHANGED <<phase, componentState, inflight, localStorage, ledgerState>>
    /\ UNCHANGED otherVars
    /\ StoredSecretMemo(FALSE)
    /\ PollingEffect(pendingPolls, FALSE)
    /\ AutoRevealEffect(timer, autoRevealTriggeredRef, FALSE)

\* line 99: the page is reloaded and tableState is still null at the first
\* render, so handNumber is 0
RemountBeforeTableState ==
    /\ ledgerHand > 0
    /\ RemountWith(0)

HandNext ==
    \/ FeedGameState
    \/ FeedTableState
    \/ handleRequestCards
    \/ AutoRevealTimeout
    \/ ActionSucceeds
    \/ ActionFails
    \/ RefreshSucceeds
    \/ PollReturns
    \/ RemountBeforeTableState

HandSpec == Init /\ [][HandNext]_vars

\* ------------------------------------------------------ a flickering feed
\* gameState.phase is whatever the parent passes: during REVEAL the feed
\* reports COMMIT once more (an answer older than the one shown) and REVEAL
\* again afterwards; the ledger stays where it is.  Taken after the
\* player's commitment, so that the ledger refuses any further one
PhaseFlicker ==
    /\ phase = REVEAL
    /\ ledgerCommit # NoCommit
    /\ phase' = COMMIT
    /\ UNCHANGED <<handNumber, ledgerState, revealCalls, componentState, inflight,
                   localStorage>>
    /\ UNCHANGED otherVars
    /\ StoredSecretMemo(FALSE)
    /\ PollingEffect(pendingPolls, FALSE)
    /\ AutoRevealEffect(timer, autoRevealTriggeredRef, FALSE)

FlickerNext ==
    \/ FeedPhase
    \/ PhaseFlicker
    \/ handleRequestCards
    \/ AutoRevealTimeout
    \/ ActionSucceeds
    \/ ActionFails
    \/ RefreshSucceeds
    \/ PollReturns
    \/ Remount

FlickerSpec == Init /\ [][FlickerNext]_vars

\* lines 380-399: the Accept Cards card shows "Secret not found"
secretNotFoundShown ==
    /\ phase = REVEAL
    /\ ~hasRevealed
    /\ activeAction # "reveal"
    /\ storedSecret = NoSecret

\* ------------------------------------------------------------------- claims

\* C1: whenever revealSecret is invoked for a hand for which the ledger has
\* accepted a commitment of this player, the digest of the revealed bytes is
\* that commitment
C1_RevealOpensAcceptedCommitment ==
    [][\A r \in NewCalls :
          (r.call = "revealSecret" /\ ledgerCommit # NoCommit)
             => sha3_256(r.bytes) = ledgerCommit]_vars

\* C2: while the action slot is held no step invokes a collaborator call, so
\* at most one action is in flight
C2_NoCallWhileSlotHeld ==
    [][activeAction # NONE => NewCalls = {}]_vars

\* C3: one component instance invokes revealSecret automatically at most
\* once while the hand number stays the same
C3_AtMostOneAutoRevealPerHand == revealCalls <= 1

\* the reveal was invoked, and the preconditions of the auto-reveal hold
\* again in the same hand
C3_Witness ==
    /\ revealCalls = 1
    /\ AutoRevealCondNoMark(phase, storedSecret, playerHandIdx, hasRevealed,
                            activeAction, autoRevealTriggeredRef, handNumber)
    /\ autoRevealTriggeredRef = handNumber
    /\ ~timer.armed

\* C4: when the phase moves from COMMIT to REVEAL with the secret of the
\* accepted commitment stored for the hand, the player among the participants,
\* the reveal flag false and no action in flight, the debounce timer is armed
\* with the stored secret
C4_RevealArmedOnEnteringReveal ==
    [][(/\ phase = COMMIT
        /\ phase' = REVEAL
        /\ localStorage'[handNumber'] # NoSecret
        /\ hashSecretToBytes(localStorage'[handNumber']) = ledgerCommit'
        /\ playerHandIdx' >= 0
        /\ ~hasRevealed'
        /\ activeAction' = NONE)
          => (timer'.armed /\ timer'.secret = localStorage'[handNumber'])]_vars

\* C5: every invoked reveal carries the byte encoding of the secret stored
\* last for the hand
C5_RevealCarriesLatestSecret ==
    [][\A r \in NewCalls :
          r.call = "revealSecret"
             => r.bytes = RevealBytes(localStorage[handNumber])]_vars

\* C6: a commitment the ledger accepted for the hand always has its secret
\* in the store
C6_AcceptedCommitHasStoredSecret ==
    ledgerCommit # NoCommit
       => /\ localStorage[handNumber] # NoSecret
          /\ hashSecretToBytes(localStorage[handNumber]) = ledgerCommit

\* C7: the action slot is never held while no action is in flight
C7_SlotHeldOnlyWhileInFlight ==
    activeAction # NONE => inflight # EmptyBag

\* a failed call or a failed refresh has released the slot
C7_Witness ==
    /\ status = "error"
    /\ activeAction = NONE
    /\ inflight = EmptyBag

\* C8: in REVEAL with no secret stored for the hand and no action in flight
\* the "Secret not found" advisory is shown, no debounce timer is armed and
\* no reveal was invoked
C8_NoSecretShowsAdvisory ==
    (phase = REVEAL /\ localStorage[handNumber] = NoSecret /\ activeAction = NONE)
       => (secretNotFoundShown /\ ~timer.armed /\ revealCalls = 0)

\* C9: the snapshot changes only as a whole, to the three vectors of one
\* pending poll (or to the empty snapshot of a new instance)
C9_SnapshotReplacedAsAWhole ==
    [][snapshotState' # snapshotState
          => \/ snapshotState' = <<<<>>, <<>>, <<>>>>
             \/ \E v \in pendingPolls :
                   snapshotState' = <<v.commits, v.reveals, v.players>>]_vars

\* a snapshot is kept while the ledger has moved on and polls are pending
C9_Witness ==
    /\ playersInHand # <<>>
    /\ snapshotState # <<LedgerView.commits, LedgerView.reveals, LedgerView.players>>
    /\ pendingPolls # {}

SameIgnoringCase(p, q) ==
    /\ Len(p) = Len(q)
    /\ \A i \in 1..Len(p) :
          \/ p[i] = q[i]
          \/ \E j \in 1..Len(UpperCase) :
                {p[i], q[i]} = {UpperCase[j], LowerCase[j]}

\* C11: after the last save(t, p', h, s) on working storage, load(t, p, h)
\* gives s (absent for the empty s) for every p that differs from p' only in
\* letter case, whatever the entry held before, and load for another hand
\* number gives what it gave before the save
C11_SaveThenLoad ==
    lastSave # NoSave =>
       \A caller \in PlayerAddresses \ {NoAddress}, hand \in StoreHands :
          /\ (SameIgnoringCase(caller, lastSave.player) /\ hand = lastSave.hand)
                => loadStoredSecretAt(secretStore, TableAddress, caller,
                                      hand, TRUE) = lastSave.secret
          /\ hand # lastSave.hand
                => loadStoredSecretAt(secretStore, TableAddress, caller,
                                      hand, TRUE)
                   = loadStoredSecretAt(lastSave.before, TableAddress, caller,
                                        hand, TRUE)

\* an entry was overwritten and is loaded through an identity in another case
C11_Witness ==
    /\ lastSave # NoSave
    /\ lastSave.secret # NoSecret
    /\ loadStoredSecretAt(lastSave.before, TableAddress, lastSave.player,
                          lastSave.hand, TRUE) \notin {NoSecret, lastSave.secret}
    /\ \E caller \in PlayerAddresses \ {NoAddress, lastSave.player} :
          /\ SameIgnoringCase(caller, lastSave.player)
          /\ loadStoredSecretAt(secretStore, TableAddress, caller,
                                lastSave.hand, TRUE) = lastSave.secret

C13_ProgressDerivation ==
    (view # NoView /\ phase \in {COMMIT, REVEAL}) =>
       LET trueEntries(bits) == Cardinality({i \in 1..Len(bits) : bits[i]})
       IN  /\ view.progress.denominator >= 1
           /\ view.progress.denominator =
                 IF Len(playersInHand) > 0 THEN Len(playersInHand)
                 ELSE IF trueEntries(commitStatus) > 0 THEN trueEntries(commitStatus)
                 ELSE 1
           /\ view.progress.numerator =
                 IF phase = COMMIT THEN trueEntries(commitStatus)
                 ELSE trueEntries(revealStatus)

\* participants [0,1,2] with commitments [T,F,F] show 1/3 in COMMIT
C13_Witness ==
    /\ phase = COMMIT
    /\ playersInHand = <<0, 1, 2>>
    /\ commitStatus = <<TRUE, FALSE, FALSE>>
    /\ view # NoView
    /\ view.progress = [numerator |-> 1, denominator |-> 3]

\* C14: at any time t the deadline text shown for deadline d is nothing when
\* d is absent or d <= 0, "Expired" when d <= t, and otherwise the remaining
\* d - t seconds as minutes and seconds, only seconds under a minute
C14_DeadlineTextFollowsTheClock ==
    LET d == props.actionOn.deadline
        remaining == d - clock
    IN  deadlineText =
           IF props.actionOn = NoActionOn \/ d <= 0 THEN NoText
           ELSE IF d <= clock THEN <<"Expired">>
           ELSE IF remaining >= 60
                THEN <<ToString(remaining \div 60), "m ", ToString(remaining % 60), "s">>
           ELSE <<ToString(remaining), "s">>

\* C15: Request Cards is enabled exactly when the phase is COMMIT, the player
\* occupies a seat and is not sitting out, no action is in flight and the
\* ledger holds no commitment of the player for the current hand: it is not
\* enabled again once the commitment for this hand was accepted, and a
\* commitment of an earlier hand does not disable it
C15_RequestCardsEligibility ==
    (~requestCardsDisabled) <=>
        /\ phase = COMMIT
        /\ isActivePlayer
        /\ activeAction = NONE
        /\ ledgerCommit = NoCommit

\* C16: Start Hand is enabled exactly when the phase is WAITING, at least
\* two seats are occupied and not sitting out, the table is not paused, no
\* action is in flight, and the caller is an administrator or, with
\* administrator-only start off, sits at the acting seat under an identity
\* equal to the acting one up to letter case; in WAITING the hint is empty
\* exactly when none of the conditions other than the slot blocks the start
C16_StartHandEligibility ==
    LET occupiedActive == {i \in 1..Len(props.seats) :
                              props.seats[i] # NoEntry /\ ~props.seats[i].sittingOut}
        own == SeatAt(props.seats, props.playerSeat)
        actingSeat == /\ props.actionOn # NoActionOn
                      /\ props.playerSeat # NoSeat
                      /\ own # NoEntry
                      /\ props.actionOn.seatIndex = props.playerSeat
                      /\ SameIgnoringCase(props.actionOn.playerAddress, own.player)
        nonSlot == /\ Cardinality(occupiedActive) >= 2
                   /\ ~props.isPaused
                   /\ (props.isAdmin \/ (~props.isAdminOnlyStart /\ actingSeat))
    IN  /\ (~startDisabled) <=> (phase = WAITING /\ nonSlot /\ activeAction = NONE)
        /\ phase = WAITING => ((startHint = NoHint) <=> nonSlot)

\* startHand is in flight, started by a player who is no administrator and
\* whose identity differs from the acting one in letter case only
C16_Witness ==
    /\ activeAction = "start"
    /\ \E r \in BagToSet(inflight) : r.call = "startHand"
    /\ ~props.isAdmin
    /\ props.actionOn # NoActionOn
    /\ props.actionOn.playerAddress # playerAddress
    /\ startDisabled
    /\ startHint = NoHint

\* C17: leaveTable is invoked only while the phase is WAITING; in any other
\* phase the leave call a seated player's click invokes is
\* cancelLeaveAfterHand when the pending-leave flag is set and
\* leaveAfterHand otherwise; a leave call comes from a seated player
C17_LeaveNowOnlyInWaiting ==
    [][\A r \in NewCalls :
          r.kind = "leave" =>
             /\ isSeatedPlayer
             /\ r.call = "leaveTable" => phase = WAITING
             /\ phase # WAITING =>
                   r.call = IF props.pendingLeave THEN "cancelLeaveAfterHand"
                            ELSE "leaveAfterHand"]_vars

\* in REVEAL with the pending-leave flag set the toggle has invoked
\* cancelLeaveAfterHand, which is still in flight
C17_Witness ==
    /\ phase = REVEAL
    /\ props.pendingLeave
    /\ activeAction = "leave"
    /\ \E r \in BagToSet(inflight) : r.call = "cancelLeaveAfterHand" /\ r.stage = "call"

\* C18: the debounce timer of the auto-reveal is armed only while its
\* preconditions hold: it is cancelled when the phase leaves REVEAL and when
\* an action becomes active during the delay, so that its firing never
\* invokes revealSecret outside REVEAL or while another action is in flight
C18_ArmedTimerCancelledWithPreconditions ==
    timer.armed => (phase = REVEAL /\ activeAction = NONE /\ inflight = EmptyBag)

\* C19: the polling interval runs exactly while the phase is COMMIT or
\* REVEAL (stopped as soon as the phase leaves them, also across a teardown,
\* and started again on re-entry), a poll is sent at once when such a phase
\* is entered, and no step sends a new poll in any other phase
C19_PollsOnlyInCommitAndReveal ==
    [][/\ interval' = (phase' \in {COMMIT, REVEAL})
       /\ (phase' # phase /\ phase' \in {COMMIT, REVEAL}) => LedgerView' \in pendingPolls'
       /\ ~(pendingPolls' \subseteq pendingPolls) => phase' \in {COMMIT, REVEAL}]_vars

\* polling has started again in the COMMIT phase of the second hand, after
\* having been stopped in between
C19_Witness ==
    /\ handNumber = 2
    /\ phase = COMMIT
    /\ interval
    /\ LedgerView \in pendingPolls

\* C20: for every kind of action, the status is cleared when the action
\* starts; when the collaborator call succeeds the success status is set and
\* a refresh is awaited, and the status is still the success status when the
\* action ends; when the call fails the failure status is set and no refresh
\* is awaited
C20_ActionOutcome ==
    [][/\ NewCalls # {} => status' = NONE
       /\ ActionSucceeds =>
             /\ status' = "success"
             /\ \E r \in BagToSet(inflight') : r.stage = "refresh"
       /\ ActionFails =>
             /\ status' = "error"
             /\ \A r \in BagToSet(inflight') :
                   r.stage = "refresh" => CopiesIn(r, inflight') <= CopiesIn(r, inflight)
       /\ (RefreshSucceeds \/ RefreshFails) => status' = "success"]_vars

\* C21: a reveal that failed in REVEAL can be attempted again within the
\* hand: when a reveal was invoked for the hand, none is in flight, the ledger
\* has no reveal, the secret is still stored, the player is in the hand and
\* not shown as revealed, and no action is active, the auto-reveal (the only
\* way the panel invokes revealSecret) is armed again
C21_FailedRevealCanBeRetried ==
    (/\ phase = REVEAL
     /\ revealCalls > 0
     /\ ~ledgerRevealed
     /\ inflight = EmptyBag
     /\ activeAction = NONE
     /\ storedSecret # NoSecret
     /\ sha3_256(RevealBytes(storedSecret)) = ledgerCommit
     /\ playerHandIdx >= 0
     /\ ~hasRevealed)
        => timer.armed

\* C22: every commitment submitted and every secret revealed while the
\* ledger is in hand N belongs to a secret kept under hand number N: the
\* hand number of the storage key the secret is saved under (commit) or
\* was loaded from (reveal) is N, also when the phase arrives before the
\* hand number
C22_SecretsAreHandScoped ==
    [][\A r \in NewCalls :
          r.kind \in {"commit", "reveal"} => handNumber = ledgerHand]_vars

\* C23: when the preconditions of the auto-reveal hold with the slot free
\* and no reveal was armed yet for the hand, also after REVEAL was reached
\* with an action in flight that has ended since, the debounce timer is armed
C23_ArmedOnceSlotReleased ==
    (/\ phase = REVEAL
     /\ storedSecret # NoSecret
     /\ playerHandIdx >= 0
     /\ ~hasRevealed
     /\ activeAction = NONE
     /\ inflight = EmptyBag
     /\ autoRevealTriggeredRef # handNumber)
        => timer.armed

\* C24: the mark of a hand is consumed only by a reveal invocation: when the
\* preconditions of the auto-reveal hold in hand N, no reveal was invoked
\* for N by this instance and none is armed, the hand is not marked (so the
\* auto-reveal can be armed again after a cancelled timer)
C24_MarkConsumedOnlyByReveal ==
    (/\ phase = REVEAL
     /\ storedSecret # NoSecret
     /\ playerHandIdx >= 0
     /\ ~hasRevealed
     /\ activeAction = NONE
     /\ inflight = EmptyBag
     /\ revealCalls = 0
     /\ ~timer.armed)
        => autoRevealTriggeredRef # handNumber

\* C25: the initial value of the mark suppresses the auto-reveal for no
\* hand number, 0 included: when the preconditions hold with the slot free
\* and this instance has neither armed nor invoked a reveal while showing
\* the present hand number, the hand number is not marked
C25_InitialMarkMatchesNoHand ==
    (/\ phase = REVEAL
     /\ storedSecret # NoSecret
     /\ playerHandIdx >= 0
     /\ ~hasRevealed
     /\ activeAction = NONE
     /\ inflight = EmptyBag
     /\ revealCalls = 0
     /\ ~timer.armed
     /\ handNumber = 0)
        => autoRevealTriggeredRef # handNumber

\* C26: a poll response that arrives late never replaces the snapshot: the
\* snapshot of an instance changes only while the phase is COMMIT or REVEAL,
\* and never from what the ledger shows now back to an older view
C26_LateResponseNeverApplied ==
    [][(snapshotState' # snapshotState /\ snapshotState' # <<<<>>, <<>>, <<>>>>)
          => /\ phase \in {COMMIT, REVEAL}
             /\ snapshotState # <<LedgerView.commits, LedgerView.reveals,
                                  LedgerView.players>>]_vars

\* C27: the 'has committed' and 'has revealed' flags used in COMMIT and
\* REVEAL of a hand come from a snapshot of that hand, never from one left
\* from an earlier hand: a flag is set only if the ledger holds the
\* player's commitment, or reveal, for the hand it is in
C27_FlagsFromThisHandOnly ==
    phase \in {COMMIT, REVEAL}
       => /\ hasCommitted => ledgerCommit # NoCommit
          /\ hasRevealed => ledgerRevealed

====
